---- MODULE Spec2Model ----
(***************************************************************************)
(* Model of the natural-language web tester: the command translator        *)
(* (server/services/nlpService.js), the test-session routes (create,       *)
(* execute, get, delete) and the execution engine                          *)
(* (server/services/testExecutor.js) over the sqlite store                 *)
(* (server/database/init.js).                                              *)
(*                                                                         *)
(* Strings are sequences of tokens.  A token is a run of characters that   *)
(* the code never looks inside: a verb, a quote character, a blank, the    *)
(* start of a URL, a letter.  JavaScript values are tagged records, so     *)
(* that undefined, null, the empty string and 0 stay distinct and the      *)
(* truthiness tests are the language's own.                                *)
(***************************************************************************)
EXTENDS Integers, Sequences, FiniteSets, TLC

----------------------------------------------------------------------------
(* JavaScript values *)

Undefined == [t |-> "undefined"]
Null == [t |-> "null"]
Str(s) == [t |-> "string", s |-> s]
Num(n) == [t |-> "number", n |-> n]
Obj(f) == [t |-> "object", f |-> f]

\* ToBoolean: undefined, null, the empty string and 0 are falsy
Truthy(v) ==
  CASE v.t = "undefined" -> FALSE
    [] v.t = "null" -> FALSE
    [] v.t = "string" -> v.s # <<>>
    [] v.t = "number" -> v.n # 0
    [] OTHER -> TRUE

\* a || b
OrElse(a, b) == IF Truthy(a) THEN a ELSE b

\* property read: a field the object does not carry reads as undefined
Get(v, k) == IF v.t = "object" /\ k \in DOMAIN v.f THEN v.f[k] ELSE Undefined

\* the text a template literal gives for v
Template(v) ==
  CASE v.t = "undefined" -> <<"undefined">>
    [] v.t = "null" -> <<"null">>
    [] v.t = "string" -> v.s
    [] v.t = "number" -> <<ToString(v.n)>>
    [] OTHER -> <<"[object Object]">>

\* a thrown Error(message) and a returned value
Throw(m) == [throws |-> TRUE, message |-> m]
Return(v) == [throws |-> FALSE, value |-> v]

----------------------------------------------------------------------------
(* nlpService.js: the action schema and the validator *)

SUPPORTED_ACTIONS ==
  [NAVIGATE |-> "navigate", CLICK |-> "click", TYPE |-> "type", WAIT |-> "wait",
   VERIFY |-> "verify", SCROLL |-> "scroll", HOVER |-> "hover", SELECT |-> "select",
   UPLOAD |-> "upload", SCREENSHOT |-> "screenshot"]

\* Object.values(SUPPORTED_ACTIONS)
SupportedValues == {SUPPORTED_ACTIONS[k] : k \in DOMAIN SUPPORTED_ACTIONS}

\* Object.values(SUPPORTED_ACTIONS).includes(v): strict equality with a kind
IsSupported(v) == v.t = "string" /\ Len(v.s) = 1 /\ v.s[1] \in SupportedValues

DefaultTimeout == 30000

\* the mutant of Normalized that always wraps the description in its template
Normalized_WrapsDescription(action) ==
  Obj([type |-> Get(action, "type"),
       target |-> OrElse(Get(action, "target"), Str(<<>>)),
       value |-> OrElse(Get(action, "value"), Str(<<>>)),
       description |-> Str(<<"Execute ">>
                           \o Template(OrElse(Get(action, "description"), Get(action, "type")))
                           \o <<" action">>),
       waitFor |-> OrElse(Get(action, "waitFor"), Null),
       timeout |-> OrElse(Get(action, "timeout"), Num(DefaultTimeout))])

\* the "Set defaults" object literal of validateAction
Normalized(action) ==
  Obj([type |-> Get(action, "type"),
       target |-> OrElse(Get(action, "target"), Str(<<>>)),
       value |-> OrElse(Get(action, "value"), Str(<<>>)),
       description |-> OrElse(Get(action, "description"),
                          Str(<<"Execute ">> \o Template(Get(action, "type")) \o <<" action">>)),
       waitFor |-> OrElse(Get(action, "waitFor"), Null),
       timeout |-> OrElse(Get(action, "timeout"), Num(DefaultTimeout))])

\* the mutant of validateAction that has lost the TYPE case of its switch
validateAction_NoTypeCase(action) ==
  IF ~Truthy(action) \/ action.t # "object"
  THEN Throw(<<"Action must be an object">>)
  ELSE IF ~Truthy(Get(action, "type")) \/ ~IsSupported(Get(action, "type"))
  THEN Throw(<<"Invalid action type: ">> \o Template(Get(action, "type")))
  ELSE Return(Normalized(action))

validateAction(action) ==
  IF ~Truthy(action) \/ action.t # "object"
  THEN Throw(<<"Action must be an object">>)
  ELSE IF ~Truthy(Get(action, "type")) \/ ~IsSupported(Get(action, "type"))
  THEN Throw(<<"Invalid action type: ">> \o Template(Get(action, "type")))
  ELSE LET validatedAction == Normalized(action)
           kind == Get(action, "type").s[1]
       IN CASE kind = SUPPORTED_ACTIONS.NAVIGATE
                 /\ ~Truthy(Get(validatedAction, "value"))
                 /\ ~Truthy(Get(validatedAction, "target"))
                 -> Throw(<<"Navigate action requires a URL in value or target field">>)
            [] kind = SUPPORTED_ACTIONS.TYPE
                 /\ ~Truthy(Get(validatedAction, "value"))
                 -> Throw(<<"Type action requires a value to type">>)
            [] kind = SUPPORTED_ACTIONS.VERIFY
                 /\ ~Truthy(Get(validatedAction, "value"))
                 /\ ~Truthy(Get(validatedAction, "target"))
                 -> Throw(<<"Verify action requires something to verify">>)
            [] OTHER -> Return(validatedAction)

----------------------------------------------------------------------------
(* nlpService.js: the pattern fallback *)

\* the three quote characters: single (sq), double (dq) and backtick (bq)
IsQuote(c) == c \in {"sq", "dq", "bq"}
IsSpace(c) == c = " "

\* String.prototype.toLowerCase, token by token
LowerToken(c) ==
  CASE c = "Click" -> "click"
    [] c = "Type" -> "type"
    [] c = "Y" -> "y"
    [] c = "E" -> "e"
    [] OTHER -> c

toLowerCase(s) == [i \in 1..Len(s) |-> LowerToken(s[i])]

\* String.prototype.includes for a word given as its tokens
includes(s, w) ==
  \E i \in 1..(Len(s) - Len(w) + 1) : SubSeq(s, i, i + Len(w) - 1) = w

SetMin(S) == CHOOSE x \in S : \A y \in S : x <= y

\* command.match(quote, one or more non-quotes, quote): the leftmost quote
\* character that is followed by one or more non-quote tokens and then by a
\* quote character (any of the three, not necessarily the same one)
extractQuotedText(command) ==
  LET closes(i) == {j \in (i + 2)..Len(command) :
                      /\ IsQuote(command[j])
                      /\ \A k \in (i + 1)..(j - 1) : ~IsQuote(command[k])}
      opens == {i \in 1..Len(command) : IsQuote(command[i]) /\ closes(i) # {}}
  IN IF opens = {} THEN Null
     ELSE LET i == SetMin(opens)
          IN Str(SubSeq(command, i + 1, SetMin(closes(i)) - 1))

\* a token that begins with http:// or https:// and one more character
IsUrlStart(c) == c \in {"http://u", "https://u"}

\* command.match(scheme, one or more non-blanks): from the leftmost scheme up
\* to the next blank
extractUrl(command) ==
  LET starts == {i \in 1..Len(command) : IsUrlStart(command[i])}
  IN IF starts = {} THEN Null
     ELSE LET i == SetMin(starts)
              blanks == {j \in (i + 1)..Len(command) : IsSpace(command[j])}
              last == IF blanks = {} THEN Len(command) ELSE SetMin(blanks) - 1
          IN Str(SubSeq(command, i, last))

getFallbackAction(command) ==
  LET lowerCommand == toLowerCase(command)
      quoted == extractQuotedText(command)
      buttonText == OrElse(quoted, Str(<<"button">>))
      url == extractUrl(command)
  IN IF includes(lowerCommand, <<"click">>)
     THEN Obj([type |-> Str(<<SUPPORTED_ACTIONS.CLICK>>),
               target |-> Str(<<"button:has-text(", "sq">> \o buttonText.s
                              \o <<"sq", "), [data-testid*=", "sq">>
                              \o toLowerCase(buttonText.s) \o <<"sq", "]">>),
               description |-> Str(<<"Click", " ">> \o buttonText.s),
               timeout |-> Num(30000)])
     ELSE IF (includes(lowerCommand, <<"type">>) \/ includes(lowerCommand, <<"enter">>))
             /\ Truthy(quoted)
     THEN Obj([type |-> Str(<<SUPPORTED_ACTIONS.TYPE>>),
               target |-> Str(<<"input, textarea">>),
               value |-> quoted,
               description |-> Str(<<"Type", " ", "dq">> \o quoted.s \o <<"dq">>),
               timeout |-> Num(30000)])
     ELSE IF (includes(lowerCommand, <<"navigate">>)
                \/ includes(lowerCommand, <<"go", " ", "to">>))
             /\ Truthy(url)
     THEN Obj([type |-> Str(<<SUPPORTED_ACTIONS.NAVIGATE>>),
               target |-> url,
               value |-> url,
               description |-> Str(<<"Navigate", " ", "to", " ">> \o url.s),
               timeout |-> Num(30000)])
     ELSE Null

----------------------------------------------------------------------------
(* nlpService.js: translateCommand *)

\* what the language capability did with the request: the call failed, it
\* answered with text that is not JSON, or it answered with the JSON value
ApiError == [kind |-> "error"]
NotJson == [kind |-> "text"]
Json(v) == [kind |-> "json", value |-> v]

\* the try block: the request, JSON.parse, validateAction
TranslateTry(reply) ==
  CASE reply.kind = "error" -> Throw(<<"API Error">>)
    [] reply.kind = "text" -> Throw(<<"Invalid response format from AI model">>)
    [] OTHER -> validateAction(reply.value)

translateCommand(command, reply) ==
  LET tried == TranslateTry(reply)
  IN IF ~tried.throws THEN tried
     ELSE LET fallbackAction == getFallbackAction(command)
          IN IF Truthy(fallbackAction) THEN Return(fallbackAction)
             ELSE Throw(<<"Failed to translate command: ">> \o tried.message)

----------------------------------------------------------------------------
(* Bounds and inputs *)

\* commands in one create request
MaxCommands == 3
\* execute requests issued
MaxExec == 2
\* store errors, browser failures and failed captures injected in one run
MaxFaults == 1
\* phrases in one command of the translator's own specification
MaxParts == 3

\* the one session id (uuidv4) the create request draws
SessionIds == {"s1"}
ExecIds == 1..MaxExec

\* the command texts of a create request: a navigation, a click and a text no
\* pattern of the fallback recognises
SessionCommands ==
  {<<"go", " ", "to", " ", "http://u">>, <<"Click", " ", "dq", "x", "dq">>, <<"x">>}

\* what the language capability answers during a create request
SessionReplies == {ApiError}

\* SQL NULL
NULL == "NULL"

----------------------------------------------------------------------------
(* State *)

VARIABLES
  test_sessions,  \* table test_sessions: session id -> row, or NoRow
  test_steps,     \* table test_steps: a set of rows
  creates,        \* POST /create, per session id: the handler's position and locals
  execs,          \* POST /execute/:sessionId, per request: position and locals
  deletes,        \* DELETE /:sessionId, per session id: the handler's position
  faults,         \* failures of the store and of the browser injected so far
  trCommand,      \* translator specification: the command
  trReply,        \* translator specification: the capability's answer
  trResult,       \* translator specification: what translateCommand gave
  pageDom,        \* handler specification: the page the browser shows
  pageAction,     \* handler specification: the action of the step
  pageResult,     \* handler specification: the calls made on the page, the outcome
  reads,          \* GET /:sessionId: the responses of two requests in a row
  inflight        \* store writes issued whose callback has not run yet

vars == <<test_sessions, test_steps, creates, execs, deletes, faults, trCommand, trReply, trResult,
          pageDom, pageAction, pageResult, reads, inflight>>
storeVars == <<test_sessions, test_steps>>
trVars == <<trCommand, trReply, trResult>>
pgVars == <<pageDom, pageAction, pageResult>>
obsVars == <<reads, inflight>>

NoRow == [absent |-> TRUE]

\* a page with no element and an empty title
BlankPage == [attached |-> {}, hidden |-> {}, refuses |-> {}, title |-> <<>>, text |-> <<>>]

\* n more injected failures, within the budget
Charge(n) == faults + n <= MaxFaults /\ faults' = faults + n
Cost(ok) == IF ok THEN 0 ELSE 1

\* CREATE TABLE test_sessions: status defaults to 'pending', the counters to 0
NewSessionRow(total) ==
  [status |-> "pending", total_steps |-> total, passed_steps |-> 0, failed_steps |-> 0]

\* JSON.stringify and JSON.parse of an action: the stored text carries the
\* fields of the object that are not undefined
JSONstringify(action) ==
  [json |-> Obj([k \in {f \in DOMAIN action.f : action.f[f] # Undefined} |-> action.f[k]])]
\* the mutant of JSONparse that gives null for a text that is no JSON
JSONparse_Lenient(text) ==
  IF "json" \in DOMAIN text THEN Return(text.json) ELSE Return(Null)

JSONparse(text) ==
  IF "json" \in DOMAIN text THEN Return(text.json) ELSE Throw(<<"Unexpected token">>)

\* CREATE TABLE test_steps and the INSERT of the create route: status
\* defaults to 'pending', the result columns to NULL
NewStepRow(stepId, sessionId, stepNumber, command, action) ==
  [id |-> stepId, session_id |-> sessionId, step_number |-> stepNumber,
   original_command |-> command, translated_action |-> JSONstringify(action),
   action_type |-> Get(action, "type"), status |-> "pending",
   actual_result |-> NULL, error_message |-> NULL, screenshot_path |-> NULL]

StepsOf(sessionId) == {r \in test_steps : r.session_id = sessionId}

\* the mutant of OrderByStepNumber that sorts in descending order
OrderByStepNumber_Desc(rows) ==
  CHOOSE s \in [1..Cardinality(rows) -> rows] :
    /\ {s[i] : i \in DOMAIN s} = rows
    /\ \A i, j \in DOMAIN s : i < j => s[i].step_number >= s[j].step_number

\* ORDER BY step_number
OrderByStepNumber(rows) ==
  CHOOSE s \in [1..Cardinality(rows) -> rows] :
    /\ {s[i] : i \in DOMAIN s} = rows
    /\ \A i, j \in DOMAIN s : i < j => s[i].step_number <= s[j].step_number

\* the columns of a step row that executeTest and executeStep read
ReadColumns(row) ==
  [id |-> row.id, step_number |-> row.step_number,
   original_command |-> row.original_command, translated_action |-> row.translated_action]

\* the mutant of UpdateStep that has lost its WHERE clause
UpdateStep_EveryRow(stepId, patch) ==
  {[k \in DOMAIN r |-> IF k \in DOMAIN patch THEN patch[k] ELSE r[k]] : r \in test_steps}

\* UPDATE test_steps SET ... WHERE id = ?: rows that are gone are not an error
UpdateStep(stepId, patch) ==
  {IF r.id = stepId THEN [k \in DOMAIN r |-> IF k \in DOMAIN patch THEN patch[k] ELSE r[k]]
   ELSE r : r \in test_steps}

\* UPDATE test_sessions SET ... WHERE id = ?
UpdateSession(sessionId, patch) ==
  IF test_sessions[sessionId] = NoRow THEN test_sessions
  ELSE [test_sessions EXCEPT ![sessionId] =
          [k \in DOMAIN @ |-> IF k \in DOMAIN patch THEN patch[k] ELSE @[k]]]

\* a write handed to the store (db.run) whose callback has not run yet: who
\* issued it and the step it is for (EveryStep for a statement whose WHERE
\* clause names the session)
EveryStep(sessionId) == <<sessionId, 0>>
StepWrite(by, sessionId, step) == [by |-> by, session |-> sessionId, step |-> step]
WritesBy(by) == {w \in inflight : w.by = by}

IdleCreate == [pc |-> "idle", commands |-> <<>>, i |-> 0, steps |-> <<>>, code |-> 0]
IdleExec ==
  [pc |-> "idle", sessionId |-> "none", steps |-> <<>>, i |-> 0, results |-> <<>>,
   mode |-> "none", outcome |-> NULL, screenshotPath |-> NULL, captures |-> 0,
   browser |-> "null", context |-> "null", page |-> "null",
   thrown |-> FALSE, log |-> <<>>, code |-> 0, status |-> "none",
   summary |-> [total |-> 0, passed |-> 0, failed |-> 0]]
IdleDelete == [pc |-> "idle", code |-> 0]

\* the execute handler has answered with a status code: its locals are gone,
\* what stays is the response and the state of the browser resources
Answered(x, code) ==
  [IdleExec EXCEPT !.pc = "done", !.sessionId = x.sessionId, !.code = code,
                   !.browser = x.browser, !.context = x.context, !.page = x.page]

Init ==
  /\ test_sessions = [s \in SessionIds |-> NoRow]
  /\ test_steps = {}
  /\ creates = [s \in SessionIds |-> IdleCreate]
  /\ execs = [e \in ExecIds |-> IdleExec]
  /\ deletes = [s \in SessionIds |-> IdleDelete]
  /\ faults = 0
  /\ trCommand = <<>>
  /\ trReply = ApiError
  /\ trResult = [pending |-> TRUE]
  /\ pageDom = BlankPage
  /\ pageAction = Null
  /\ pageResult = [pending |-> TRUE]
  /\ reads = [pending |-> TRUE]
  /\ inflight = {}

----------------------------------------------------------------------------
(* routes: POST /create *)

\* the step the create response carries for a translated command
CreatedStep(stepId, stepNumber, command, action) ==
  [id |-> stepId, stepNumber |-> stepNumber, originalCommand |-> command,
   translatedAction |-> action, status |-> "pending"]

\* the step the create response carries when the try block threw
FailedStep(stepId, stepNumber, command, message) ==
  [id |-> stepId, stepNumber |-> stepNumber, originalCommand |-> command,
   status |-> "failed", error |-> message]

\* the request passes the schema (one command at least) and the session row is
\* inserted with total_steps = commands.length; a store error ends the request
CreateBegin(sessionId, commands, stored) ==
  /\ creates[sessionId].pc = "idle"
  /\ test_sessions[sessionId] = NoRow
  /\ Len(commands) >= 1
  /\ IF stored
     THEN /\ test_sessions' = [test_sessions EXCEPT ![sessionId] = NewSessionRow(Len(commands))]
          /\ creates' = [creates EXCEPT ![sessionId] =
                           [IdleCreate EXCEPT !.pc = "steps", !.commands = commands]]
     ELSE /\ test_sessions' = test_sessions
          /\ creates' = [creates EXCEPT ![sessionId] =
                           [IdleCreate EXCEPT !.pc = "done", !.code = 500]]
  /\ Charge(Cost(stored))
  /\ UNCHANGED <<test_steps, execs, deletes, trVars, pgVars, obsVars>>

\* one iteration of the loop over commands: translate, insert the step row,
\* push the step on the response; whatever the try block throws (the
\* translation or the insert) is caught and pushed as a failed step.  After
\* the last iteration the response is sent.
CreateStep(sessionId, reply, stored) ==
  LET c == creates[sessionId]
      i == c.i
      command == c.commands[i + 1]
      stepId == <<sessionId, i + 1>>
      translated == translateCommand(command, reply)
      pushed ==
        IF translated.throws
        THEN FailedStep(stepId, i + 1, command, translated.message)
        ELSE IF ~stored
        THEN FailedStep(stepId, i + 1, command, <<"SQLITE_ERROR">>)
        ELSE CreatedStep(stepId, i + 1, command, translated.value)
      last == i + 1 = Len(c.commands)
  IN /\ c.pc = "steps"
     /\ translated.throws => stored
     /\ test_steps' =
          IF ~translated.throws /\ stored
          THEN test_steps \cup {NewStepRow(stepId, sessionId, i + 1, command, translated.value)}
          ELSE test_steps
     /\ creates' = [creates EXCEPT ![sessionId] =
                      [c EXCEPT !.i = i + 1,
                                !.steps = Append(c.steps, pushed),
                                !.pc = IF last THEN "done" ELSE "steps",
                                !.code = IF last THEN 200 ELSE 0]]
     /\ Charge(Cost(stored))
     /\ UNCHANGED <<test_sessions, execs, deletes, trVars, pgVars, obsVars>>

----------------------------------------------------------------------------
(* testExecutor.js: executeStep and executeTest *)

\* the result object executeStep builds: stepId, status, error, actualResult
\* (executionTime, a clock difference, is left out).  It carries no other field.
StepResult(stepId, status, error, actualResult) ==
  [stepId |-> stepId, status |-> status, error |-> error, actualResult |-> actualResult]

\* result.critical: a property the result object does not carry reads as
\* undefined, which is falsy
ResultCritical(result) == IF "critical" \in DOMAIN result THEN result.critical ELSE FALSE

\* the mutant of StopsExecution that stops at every failed step
StopsExecution_AnyFailure(result) == result.status = "failed"

\* the loop's break condition: result.status === 'failed' && result.critical
StopsExecution(result) == result.status = "failed" /\ ResultCritical(result)

Passed(actualResult) == [throws |-> FALSE, actualResult |-> actualResult]
Failed(message) == [throws |-> TRUE, message |-> message]

\* what the switch over action.type can do on a page: the handlers of
\* navigate, click, type, wait, scroll, hover and select return or throw as the
\* page decides, verify returns its message or throws, screenshot cannot throw
\* (takeScreenshot catches), and every other type reaches the default branch
ActionOutcomes(action) ==
  LET type == Get(action, "type")
      kind == IF type.t = "string" /\ Len(type.s) = 1 THEN type.s[1] ELSE "none"
  IN CASE kind \in {"navigate", "click", "type", "wait", "scroll", "hover", "select"}
            -> {Passed(NULL), Failed("page")}
       [] kind = "verify" -> {Passed("verification passed"), Failed("page")}
       [] kind = "screenshot" -> {Passed(NULL)}
       [] OTHER -> {Failed("Unsupported action type")}

\* the mutant of takeScreenshot that has lost its try/catch: a failed capture
\* rejects
takeScreenshot_Rethrows(captured) ==
  IF captured THEN Return("/screenshots/file.png") ELSE Throw("screenshot failed")

\* takeScreenshot: the path of the file, or null when page.screenshot rejected
\* (the catch logs and returns null)
takeScreenshot(captured) ==
  IF captured THEN Return("/screenshots/file.png") ELSE Return(NULL)

\* the mutant of ResultPatch that does not set the status column
ResultPatch_NoStatus(result, screenshotPath) ==
  [actual_result |-> result.actualResult,
   error_message |-> result.error, screenshot_path |-> screenshotPath]

\* the patch of updateStepResult
ResultPatch(result, screenshotPath) ==
  [status |-> result.status, actual_result |-> result.actualResult,
   error_message |-> result.error, screenshot_path |-> screenshotPath]

----------------------------------------------------------------------------
(* testExecutor.js: the handlers of click, type and verify on a page *)

\* action.target.split(','): the pieces between the commas
RECURSIVE split(_)
split(s) ==
  LET commas == {i \in 1..Len(s) : s[i] = ","}
  IN IF commas = {} THEN <<s>>
     ELSE <<SubSeq(s, 1, SetMin(commas) - 1)>>
          \o split(SubSeq(s, SetMin(commas) + 1, Len(s)))

\* String.prototype.trim: the blanks at both ends are dropped
RECURSIVE trim(_)
trim(s) ==
  IF s # <<>> /\ IsSpace(s[1]) THEN trim(Tail(s))
  ELSE IF s # <<>> /\ IsSpace(s[Len(s)]) THEN trim(SubSeq(s, 1, Len(s) - 1))
  ELSE s

\* action.target.split(',').map(s => s.trim())
SelectorsOf(action) ==
  LET parts == split(Get(action, "target").s)
  IN [i \in DOMAIN parts |-> trim(parts[i])]

\* page.waitForSelector(selector) resolves when the element is on the page
\* and rejects after its timeout otherwise; page.click and page.fill reject
\* on an element that refuses the action (covered, disabled, not editable)
Resolves(dom, selector) == selector \in dom.attached
Performs(dom, selector) == selector \in dom.attached /\ selector \notin dom.refuses

\* the loop of executeClick and executeType over the selectors: waitForSelector
\* and then the action inside one try; whichever of the two rejects, the catch
\* logs it and the loop goes on with the next selector
RECURSIVE TrySelectors(_, _, _, _)
TrySelectors(dom, selectors, method, calls) ==
  IF selectors = <<>> THEN [calls |-> calls, found |-> FALSE]
  ELSE LET selector == Head(selectors)
           probed == Append(calls, <<"waitForSelector", selector>>)
           acted == Append(probed, <<method, selector>>)
       IN IF ~Resolves(dom, selector) THEN TrySelectors(dom, Tail(selectors), method, probed)
          ELSE IF ~Performs(dom, selector) THEN TrySelectors(dom, Tail(selectors), method, acted)
          ELSE [calls |-> acted, found |-> TRUE]

executeClick(dom, action) ==
  LET tried == TrySelectors(dom, SelectorsOf(action), "click", <<>>)
  IN [calls |-> tried.calls,
      outcome |-> IF tried.found THEN Return(Undefined)
                  ELSE Throw(<<"Could not find clickable element with any of the selectors: ">>
                             \o Template(Get(action, "target")))]

executeType(dom, action) ==
  LET tried == TrySelectors(dom, SelectorsOf(action), "fill", <<>>)
  IN [calls |-> tried.calls,
      outcome |-> IF tried.found THEN Return(Undefined)
                  ELSE Throw(<<"Could not find input element with any of the selectors: ">>
                             \o Template(Get(action, "target")))]

\* executeHover: one call of page.hover with action.target as it is, commas
\* and all; its rejection is the handler's
executeHover(dom, action) ==
  LET target == Template(Get(action, "target"))
  IN [calls |-> <<(<<"hover", target>>)>>,
      outcome |-> IF Performs(dom, target) THEN Return(Undefined)
                  ELSE Throw(<<"page.hover: ">> \o target)]

\* executeSelect: one call of page.selectOption with action.target as it is
executeSelect(dom, action) ==
  LET target == Template(Get(action, "target"))
  IN [calls |-> <<(<<"selectOption", target>>)>>,
      outcome |-> IF Performs(dom, target) THEN Return(Undefined)
                  ELSE Throw(<<"page.selectOption: ">> \o target)]

\* the mutant of executeVerify that compares the title without regard to case
executeVerify_IgnoreCase(dom, action) ==
  LET title == dom.title
      expected == Template(Get(action, "value"))
  IN [calls |-> <<(<<"title", <<>>>>)>>,
      outcome |->
        IF includes(toLowerCase(title), toLowerCase(expected))
        THEN Return(Str(<<"Title verification passed: ", "dq">> \o title
                        \o <<"dq", " contains ", "dq">> \o expected \o <<"dq">>))
        ELSE Throw(<<"Title verification failed: ", "dq">> \o title
                   \o <<"dq", " does not contain ", "dq">> \o expected \o <<"dq">>)]

\* locator(selector).first().isVisible(): false when no element matches and
\* when the first match is not shown
isVisible(dom, selector) == selector \in dom.attached /\ selector \notin dom.hidden

\* the mutant of executeVerify that has lost its visibility check
executeVerify_NoVisibility(dom, action) ==
  LET target == Get(action, "target")
      value == Get(action, "value")
  IN IF target = Str(<<"title">>)
     THEN LET title == dom.title
              expected == Template(value)
          IN [calls |-> <<(<<"title", <<>>>>)>>,
              outcome |->
                IF includes(title, expected)
                THEN Return(Str(<<"Title verification passed: ", "dq">> \o title
                                \o <<"dq", " contains ", "dq">> \o expected \o <<"dq">>))
                ELSE Throw(<<"Title verification failed: ", "dq">> \o title
                           \o <<"dq", " does not contain ", "dq">> \o expected \o <<"dq">>)]
     ELSE IF FALSE
     THEN [calls |-> <<(<<"isVisible", Template(target)>>)>>,
           outcome |-> Throw(<<"Element not visible: ">> \o Template(target))]
     ELSE IF Truthy(value)
     THEN [calls |-> <<(<<"isVisible", Template(target)>>), <<"textContent", Template(target)>>>>,
           outcome |->
             IF includes(dom.text, value.s)
             THEN Return(Str(<<"Text verification passed: found ", "dq">> \o value.s \o <<"dq">>))
             ELSE Throw(<<"Text verification failed: ", "dq">> \o dom.text
                        \o <<"dq", " does not contain ", "dq">> \o value.s \o <<"dq">>)]
     ELSE [calls |-> <<(<<"isVisible", Template(target)>>)>>,
           outcome |-> Return(Str(<<"Element verification passed: ">> \o Template(target)
                                  \o <<" is visible">>))]

\* executeVerify: the title branch, and the element branch (the first element
\* of the locator must be visible and, when a value is given, its text must
\* include the value)
executeVerify(dom, action) ==
  LET target == Get(action, "target")
      value == Get(action, "value")
  IN IF target = Str(<<"title">>)
     THEN LET title == dom.title
              expected == Template(value)
          IN [calls |-> <<(<<"title", <<>>>>)>>,
              outcome |->
                IF includes(title, expected)
                THEN Return(Str(<<"Title verification passed: ", "dq">> \o title
                                \o <<"dq", " contains ", "dq">> \o expected \o <<"dq">>))
                ELSE Throw(<<"Title verification failed: ", "dq">> \o title
                           \o <<"dq", " does not contain ", "dq">> \o expected \o <<"dq">>)]
     ELSE IF ~isVisible(dom, Template(target))
     THEN [calls |-> <<(<<"isVisible", Template(target)>>)>>,
           outcome |-> Throw(<<"Element not visible: ">> \o Template(target))]
     ELSE IF Truthy(value)
     THEN [calls |-> <<(<<"isVisible", Template(target)>>), <<"textContent", Template(target)>>>>,
           outcome |->
             IF includes(dom.text, value.s)
             THEN Return(Str(<<"Text verification passed: found ", "dq">> \o value.s \o <<"dq">>))
             ELSE Throw(<<"Text verification failed: ", "dq">> \o dom.text
                        \o <<"dq", " does not contain ", "dq">> \o value.s \o <<"dq">>)]
     ELSE [calls |-> <<(<<"isVisible", Template(target)>>)>>,
           outcome |-> Return(Str(<<"Element verification passed: ">> \o Template(target)
                                  \o <<" is visible">>))]

----------------------------------------------------------------------------
(* routes: POST /execute/:sessionId *)

\* the mutant of ExecGetSession that has lost `if (!session) return 404`
ExecGetSession_NoCheck(e, sessionId, ok) ==
  /\ execs[e].pc = "idle"
  /\ e > 1 => execs[e - 1].pc # "idle"
  /\ execs' = [execs EXCEPT ![e] =
       IF ~ok THEN Answered([@ EXCEPT !.sessionId = sessionId], 500)
       ELSE [@ EXCEPT !.pc = "getSteps", !.sessionId = sessionId]]
  /\ Charge(Cost(ok))
  /\ UNCHANGED <<storeVars, creates, deletes, trVars, pgVars, obsVars>>

\* SELECT * FROM test_sessions WHERE id = ?: 500 on a store error, 404 when
\* there is no row.  Requests are numbered in the order they arrive.
ExecGetSession(e, sessionId, ok) ==
  /\ execs[e].pc = "idle"
  /\ e > 1 => execs[e - 1].pc # "idle"
  /\ execs' = [execs EXCEPT ![e] =
       IF ~ok THEN Answered([@ EXCEPT !.sessionId = sessionId], 500)
       ELSE IF test_sessions[sessionId] = NoRow
       THEN Answered([@ EXCEPT !.sessionId = sessionId], 404)
       ELSE [@ EXCEPT !.pc = "getSteps", !.sessionId = sessionId]]
  /\ Charge(Cost(ok))
  /\ UNCHANGED <<storeVars, creates, deletes, trVars, pgVars, obsVars>>

\* SELECT * FROM test_steps WHERE session_id = ? ORDER BY step_number
ExecGetSteps(e, ok) ==
  /\ execs[e].pc = "getSteps"
  /\ execs' = [execs EXCEPT ![e] =
       IF ~ok THEN Answered(@, 500)
       ELSE [@ EXCEPT !.pc = "setRunning",
                      !.steps = LET rows == OrderByStepNumber(StepsOf(execs[e].sessionId))
                                IN [k \in DOMAIN rows |-> ReadColumns(rows[k])]]]
  /\ Charge(Cost(ok))
  /\ UNCHANGED <<storeVars, creates, deletes, trVars, pgVars, obsVars>>

\* UPDATE test_sessions SET status = 'running'
ExecSetRunning(e, ok) ==
  /\ execs[e].pc = "setRunning"
  /\ test_sessions' = IF ok THEN UpdateSession(execs[e].sessionId, [status |-> "running"])
                      ELSE test_sessions
  /\ execs' = [execs EXCEPT ![e] =
       IF ~ok THEN Answered(@, 500)
       ELSE [@ EXCEPT !.pc = "launch"]]
  /\ Charge(Cost(ok))
  /\ UNCHANGED <<test_steps, creates, deletes, trVars, pgVars, obsVars>>

\* executeTest up to the loop: launch, newContext, newPage.  `opened` is the
\* number of them that succeeded; the first that fails throws.
ExecLaunch(e, opened) ==
  LET x == execs[e]
  IN /\ x.pc = "launch"
     /\ opened \in 0..3
     /\ execs' = [execs EXCEPT ![e] =
          [x EXCEPT !.browser = IF opened >= 1 THEN "open" ELSE "null",
                    !.context = IF opened >= 2 THEN "open" ELSE "null",
                    !.page = IF opened >= 3 THEN "open" ELSE "null",
                    !.thrown = opened < 3,
                    !.i = 1,
                    !.pc = IF opened = 3 /\ Len(x.steps) >= 1 THEN "stepStart" ELSE "cleanup"]]
     /\ Charge(Cost(opened = 3))
     /\ UNCHANGED <<storeVars, creates, deletes, trVars, pgVars, obsVars>>

\* executeStep, first part: JSON.parse of the stored action, then
\* updateStepStatus(step.id, 'running').  Either can throw into the catch.
ExecStepStart(e, ok) ==
  LET x == execs[e]
      step == x.steps[x.i]
      parsed == JSONparse(step.translated_action)
  IN /\ x.pc = "stepStart"
     /\ parsed.throws => ok
     /\ test_steps' = IF ~parsed.throws /\ ok THEN UpdateStep(step.id, [status |-> "running"])
                      ELSE test_steps
     /\ execs' = [execs EXCEPT ![e] =
          [x EXCEPT !.pc = "stepAct",
                    !.mode = IF parsed.throws THEN "parse" ELSE IF ok THEN "act" ELSE "store",
                    !.outcome = NULL, !.screenshotPath = NULL, !.captures = 0,
                    !.log = IF ~parsed.throws /\ ok
                            THEN Append(x.log, <<"running", step.step_number>>) ELSE x.log]]
     /\ Charge(Cost(ok))
     /\ inflight' = inflight \ WritesBy(<<"execute", e>>)
     /\ UNCHANGED <<test_sessions, creates, deletes, trVars, pgVars, reads>>

\* executeStep, second part: the switch over action.type.  A screenshot
\* action is a call of takeScreenshot, whose path becomes screenshotPath; when
\* the first part threw, the switch is not reached and the outcome is that
\* exception.
ExecStepAct(e, outcome, captured) ==
  LET x == execs[e]
      step == x.steps[x.i]
      action == JSONparse(step.translated_action).value
      isShot == x.mode = "act" /\ Get(action, "type") = Str(<<SUPPORTED_ACTIONS.SCREENSHOT>>)
      shot == takeScreenshot(captured)
  IN /\ x.pc = "stepAct"
     /\ CASE x.mode = "act" -> outcome \in ActionOutcomes(action)
          [] x.mode = "store" -> outcome = Failed("SQLITE_ERROR")
          [] OTHER -> outcome = Failed("Unexpected token")
     /\ ~isShot => captured
     /\ execs' = [execs EXCEPT ![e] =
          [x EXCEPT !.pc = "stepFinish",
                    !.outcome = IF isShot /\ shot.throws THEN Failed(shot.message) ELSE outcome,
                    !.screenshotPath = IF isShot /\ ~shot.throws THEN shot.value ELSE NULL,
                    !.captures = IF isShot THEN 1 ELSE 0,
                    !.log = IF x.mode = "act"
                            THEN Append(x.log, <<"action", step.step_number>>) ELSE x.log]]
     /\ Charge(Cost(captured))
     /\ UNCHANGED <<storeVars, creates, deletes, trVars, pgVars, obsVars>>

\* executeStep, last part: on the success path the screenshot (when the
\* action left no path) and status passed; in the catch status failed, the
\* error message and the screenshot inside its own try; in the finally
\* updateStepResult.  Then the loop of executeTest pushes the result and breaks
\* or goes on.  A rejected updateStepResult leaves executeStep, and with it
\* the loop, by exception.
ExecStepFinish(e, captured, ok) ==
  LET x == execs[e]
      step == x.steps[x.i]
      shot == takeScreenshot(captured)
      \* line 144: only when screenshotPath is still null
      after == ~x.outcome.throws /\ x.screenshotPath = NULL
      \* what reaches the catch: the exception of the try block
      caught == IF x.outcome.throws THEN x.outcome
                ELSE IF after /\ shot.throws THEN Failed(shot.message)
                ELSE Passed(NULL)
      result == IF caught.throws
                THEN StepResult(step.id, "failed", caught.message,
                                \* the catch leaves result.actualResult as the try left it
                                IF x.outcome.throws THEN NULL ELSE x.outcome.actualResult)
                ELSE StepResult(step.id, "passed", NULL,
                                IF x.outcome.actualResult # NULL THEN x.outcome.actualResult
                                ELSE "Action completed successfully")
      screenshotPath == IF shot.throws THEN x.screenshotPath
                        ELSE IF after \/ caught.throws THEN shot.value
                        ELSE x.screenshotPath
      called == after \/ caught.throws
      events == IF ok THEN <<(<<"final", step.step_number>>)>> ELSE <<>>
      ends == StopsExecution(result) \/ x.i = Len(x.steps)
  IN /\ x.pc = "stepFinish"
     /\ ~called => captured
     /\ test_steps' = IF ok THEN UpdateStep(step.id, ResultPatch(result, screenshotPath))
                      ELSE test_steps
     /\ execs' = [execs EXCEPT ![e] =
          IF ~ok THEN [x EXCEPT !.pc = "cleanup", !.thrown = TRUE, !.mode = "none",
                                !.outcome = NULL, !.screenshotPath = NULL,
                                !.captures = x.captures + (IF called THEN 1 ELSE 0),
                                !.log = x.log \o events]
          ELSE [x EXCEPT !.results = Append(x.results, result),
                         !.mode = "none",
                         !.outcome = NULL, !.screenshotPath = NULL,
                         !.captures = x.captures + (IF called THEN 1 ELSE 0),
                         !.log = x.log \o events,
                         !.i = IF ends THEN x.i ELSE x.i + 1,
                         !.pc = IF ends THEN "cleanup" ELSE "stepStart"]]
     /\ Charge(Cost(ok) + Cost(captured))
     /\ inflight' = inflight \ WritesBy(<<"execute", e>>)
     /\ UNCHANGED <<test_sessions, creates, deletes, trVars, pgVars, reads>>

\* `if (handle) await handle.close()` when the close before it did not
\* reject: a handle that is null stays null, a close that rejects leaves the
\* handle "rejected", and a close that is not reached leaves it "open"
Close(handle, reached, rejects) ==
  IF handle = "null" \/ ~reached THEN handle
  ELSE IF rejects THEN "rejected" ELSE "closed"

\* the finally of executeTest: page.close(), context.close(), browser.close(),
\* each only for a handle that was acquired, each awaited in turn.  failAt
\* names the close that rejects ("none" when all succeed): the closes after it
\* are not reached and the rejection leaves executeTest.
ExecCleanup(e, failAt) ==
  LET x == execs[e]
  IN /\ x.pc = "cleanup"
     /\ \/ failAt = "none"
        \/ failAt = "page" /\ x.page # "null"
        \/ failAt = "context" /\ x.context # "null"
        \/ failAt = "browser" /\ x.browser # "null"
     /\ execs' = [execs EXCEPT ![e] =
          LET closed == [x EXCEPT
                          !.page = Close(x.page, TRUE, failAt = "page"),
                          !.context = Close(x.context, failAt # "page", failAt = "context"),
                          !.browser = Close(x.browser, failAt \notin {"page", "context"},
                                            failAt = "browser")]
          IN IF x.thrown \/ failAt # "none" THEN Answered(closed, 500)
             ELSE [closed EXCEPT !.pc = "finalUpdate"]]
     /\ Charge(Cost(failAt = "none"))
     /\ UNCHANGED <<storeVars, creates, deletes, trVars, pgVars, obsVars>>

CountStatus(results, status) ==
  Cardinality({k \in DOMAIN results : results[k].status = status})

\* failedSteps > 0 ? 'failed' : 'passed'
FinalStatus(failedSteps) == IF failedSteps > 0 THEN "failed" ELSE "passed"

\* the counts over the results executeTest returned, the UPDATE of the
\* session row and the response
ExecFinalUpdate(e, ok) ==
  LET x == execs[e]
      passedSteps == CountStatus(x.results, "passed")
      failedSteps == CountStatus(x.results, "failed")
      finalStatus == FinalStatus(failedSteps)
  IN /\ x.pc = "finalUpdate"
     /\ test_sessions' =
          IF ok THEN UpdateSession(x.sessionId,
                       [status |-> finalStatus, passed_steps |-> passedSteps,
                        failed_steps |-> failedSteps])
          ELSE test_sessions
     /\ execs' = [execs EXCEPT ![e] =
          IF ~ok THEN Answered(x, 500)
          ELSE [Answered(x, 200) EXCEPT
                  !.status = finalStatus,
                  !.summary = [total |-> Len(x.steps), passed |-> passedSteps,
                               failed |-> failedSteps]]]
     /\ Charge(Cost(ok))
     /\ UNCHANGED <<test_steps, creates, deletes, trVars, pgVars, obsVars>>

----------------------------------------------------------------------------
(* routes: DELETE /:sessionId and GET /:sessionId *)

\* DELETE FROM test_steps WHERE session_id = ?
DeleteSteps(sessionId, ok) ==
  /\ deletes[sessionId].pc = "idle"
  /\ test_steps' = IF ok THEN test_steps \ StepsOf(sessionId) ELSE test_steps
  /\ deletes' = [deletes EXCEPT ![sessionId] =
       IF ok THEN [@ EXCEPT !.pc = "session"] ELSE [@ EXCEPT !.pc = "done", !.code = 500]]
  /\ Charge(Cost(ok))
  /\ inflight' = inflight \ WritesBy(<<"delete", sessionId>>)
  /\ UNCHANGED <<test_sessions, creates, execs, trVars, pgVars, reads>>

\* DELETE FROM test_sessions WHERE id = ?: no row changed is 'Session not found'
DeleteSession(sessionId, ok) ==
  /\ deletes[sessionId].pc = "session"
  /\ test_sessions' = IF ok THEN [test_sessions EXCEPT ![sessionId] = NoRow] ELSE test_sessions
  /\ deletes' = [deletes EXCEPT ![sessionId] =
       [@ EXCEPT !.pc = "done",
                 !.code = IF ok /\ test_sessions[sessionId] # NoRow THEN 200 ELSE 500]]
  /\ Charge(Cost(ok))
  /\ UNCHANGED <<test_steps, creates, execs, trVars, pgVars, obsVars>>

\* executeStep hands updateStepStatus (when the action was parsed) or
\* updateStepResult to the store: db.run is called, its callback comes later
IssueStepWrite(e) ==
  LET x == execs[e]
      step == x.steps[x.i]
  IN /\ \/ x.pc = "stepStart" /\ ~JSONparse(step.translated_action).throws
        \/ x.pc = "stepFinish"
     /\ WritesBy(<<"execute", e>>) = {}
     /\ inflight' = inflight \cup {StepWrite(<<"execute", e>>, x.sessionId, step.id)}
     /\ UNCHANGED <<storeVars, creates, execs, deletes, faults, trVars, pgVars, reads>>

\* the delete route hands DELETE FROM test_steps WHERE session_id = ? to the store
IssueDeleteSteps(sessionId) ==
  /\ deletes[sessionId].pc = "idle"
  /\ WritesBy(<<"delete", sessionId>>) = {}
  /\ inflight' = inflight \cup {StepWrite(<<"delete", sessionId>>, sessionId, EveryStep(sessionId))}
  /\ UNCHANGED <<storeVars, creates, execs, deletes, faults, trVars, pgVars, reads>>

\* GET /:sessionId: the session row with its steps in step_number order, each
\* with its parsed action; reads only
getSession(sessionId) ==
  IF test_sessions[sessionId] = NoRow THEN [code |-> 404]
  ELSE [code |-> 200, session |-> test_sessions[sessionId],
        steps |-> OrderByStepNumber(StepsOf(sessionId))]

\* the mutant of RowsInOrder that has lost its ORDER BY: the rows in any order
RowsInOrder_AnyOrder(rows) ==
  {s \in [1..Cardinality(rows) -> rows] : {s[i] : i \in DOMAIN s} = rows}

\* what SELECT ... ORDER BY step_number may return: the rows in every order
\* that does not decrease step_number (rows with equal step_number come in
\* any order)
RowsInOrder(rows) ==
  {s \in [1..Cardinality(rows) -> rows] :
     /\ {s[i] : i \in DOMAIN s} = rows
     /\ \A i, j \in DOMAIN s : i < j => s[i].step_number <= s[j].step_number}

\* the step of the GET response: the row and its parsed action (null for a
\* row without the text of an action)
ReadStep(row) ==
  [row |-> row,
   translatedAction |-> IF "json" \in DOMAIN row.translated_action
                        THEN JSONparse(row.translated_action).value ELSE Null]

\* GET /:sessionId, the responses it can give: 500 on a store error, 404
\* without a session row, else the session with its steps
GetResponses(sessionId, ok) ==
  IF ~ok THEN {[code |-> 500]}
  ELSE IF test_sessions[sessionId] = NoRow THEN {[code |-> 404]}
  ELSE {[code |-> 200, session |-> test_sessions[sessionId],
         steps |-> [k \in DOMAIN rows |-> ReadStep(rows[k])]] :
          rows \in RowsInOrder(StepsOf(sessionId))}

\* two GET requests for the session, one after the other with no other
\* request in between
GetTwice(sessionId, ok1, ok2) ==
  /\ reads = [pending |-> TRUE]
  /\ \E first \in GetResponses(sessionId, ok1), second \in GetResponses(sessionId, ok2) :
        reads' = [first |-> first, second |-> second]
  /\ Charge(Cost(ok1) + Cost(ok2))
  /\ UNCHANGED <<storeVars, creates, execs, deletes, trVars, pgVars, inflight>>

----------------------------------------------------------------------------
(* Specifications *)

CommandLists == UNION {[1..n -> SessionCommands] : n \in 1..MaxCommands}

StepOutcomes ==
  {Passed(NULL), Passed("verification passed"), Failed("page"),
   Failed("Unsupported action type"), Failed("SQLITE_ERROR"), Failed("Unexpected token")}

\* one create request with its commands among lists and the capability's
\* answers among replies, and the execute requests of E; with serial each is
\* issued after the one before it was answered
Requests(E, lists, replies, serial) ==
  \/ \E s \in SessionIds, c \in lists, ok \in BOOLEAN : CreateBegin(s, c, ok)
  \/ \E s \in SessionIds, r \in replies, ok \in BOOLEAN : CreateStep(s, r, ok)
  \/ \E e \in E, s \in SessionIds, ok \in BOOLEAN :
        /\ (serial /\ e > 1) => execs[e - 1].pc = "done"
        /\ ExecGetSession(e, s, ok)
  \/ \E e \in E, ok \in BOOLEAN : ExecGetSteps(e, ok)
  \/ \E e \in E, ok \in BOOLEAN : ExecSetRunning(e, ok)
  \/ \E e \in E, n \in 0..3 : ExecLaunch(e, n)
  \/ \E e \in E, ok \in BOOLEAN : ExecStepStart(e, ok)
  \/ \E e \in E, o \in StepOutcomes, captured \in BOOLEAN : ExecStepAct(e, o, captured)
  \/ \E e \in E, captured \in BOOLEAN, ok \in BOOLEAN : ExecStepFinish(e, captured, ok)
  \/ \E e \in E, f \in {"none", "page", "context", "browser"} : ExecCleanup(e, f)
  \/ \E e \in E, ok \in BOOLEAN : ExecFinalUpdate(e, ok)

\* a session is created and executed once
Next == Requests({1}, CommandLists, SessionReplies, TRUE)
Spec == Init /\ [][Next]_vars

\* a session is created and executed MaxExec times, one execution after the other
NextRepeat == Requests(ExecIds, CommandLists, SessionReplies, TRUE)
SpecRepeat == Init /\ [][NextRepeat]_vars

\* a session is created, executed once and deleted; the delete request names
\* a session that exists (its id is listed by GET /) and may arrive while the
\* create or the execute request is still in progress
NextDelete ==
  \/ Requests({1}, CommandLists, SessionReplies, TRUE)
  \/ \E s \in SessionIds, ok \in BOOLEAN : test_sessions[s] # NoRow /\ DeleteSteps(s, ok)
  \/ \E s \in SessionIds, ok \in BOOLEAN : DeleteSession(s, ok)
SpecDelete == Init /\ [][NextDelete]_vars

\* a session is created and executed once; at some moment the session is
\* read twice in a row, and the run is followed up to these reads
NextGet ==
  \/ reads = [pending |-> TRUE] /\ Requests({1}, CommandLists, SessionReplies, TRUE)
  \/ \E s \in SessionIds, ok1 \in BOOLEAN, ok2 \in BOOLEAN : GetTwice(s, ok1, ok2)
SpecGet == Init /\ [][NextGet]_vars

\* the capability answers every command with a screenshot action
ScreenshotReply == Json(Obj([type |-> Str(<<SUPPORTED_ACTIONS.SCREENSHOT>>)]))

\* a session of screenshot steps is created and executed once
NextCapture == Requests({1}, CommandLists, {ScreenshotReply}, TRUE)
SpecCapture == Init /\ [][NextCapture]_vars

OneCommandLists == [1..1 -> SessionCommands]

\* the capability answers with an action of one of the supported kinds, with a
\* target and a value
KindReplies ==
  {Json(Obj([type |-> Str(<<k>>), target |-> Str(<<"#a">>), value |-> Str(<<"v">>)])) :
     k \in SupportedValues}

\* a session of one step of any supported kind is created and executed once
NextKinds == Requests({1}, OneCommandLists, KindReplies, TRUE)
SpecKinds == Init /\ [][NextKinds]_vars

\* a session of one command is created and two execute requests for it are
\* served, the second possibly before the first was answered
NextConcurrent == Requests({1, 2}, OneCommandLists, SessionReplies, FALSE)
SpecConcurrent == Init /\ [][NextConcurrent]_vars

\* `await this.updateStepStatus(...)`: executeStep goes on when the callback of
\* the write has run (a step whose action does not parse fails before any write)
StepStartAfterWrite(e, ok) ==
  /\ (WritesBy(<<"execute", e>>) = {}) =>
        /\ ~ok /\ execs[e].pc = "stepStart"
        /\ JSONparse(execs[e].steps[execs[e].i].translated_action).throws
  /\ ExecStepStart(e, ok)

\* `await this.updateStepResult(...)`
StepFinishAfterWrite(e, captured, ok) ==
  /\ WritesBy(<<"execute", e>>) # {}
  /\ ExecStepFinish(e, captured, ok)

\* the callback of DELETE FROM test_steps
DeleteStepsAfterWrite(sessionId, ok) ==
  /\ WritesBy(<<"delete", sessionId>>) # {}
  /\ DeleteSteps(sessionId, ok)

\* a DELETE request for a session that exists
DeleteRequested(sessionId) ==
  /\ test_sessions[sessionId] # NoRow
  /\ IssueDeleteSteps(sessionId)

\* a session of one command is created, executed once and deleted, and the
\* writes of executeStep and of the delete route are followed from the call of
\* db.run to its callback: the handler goes on only when the callback of the
\* write it issued has run
NextWrites ==
  \/ \E s \in SessionIds, c \in OneCommandLists, ok \in BOOLEAN : CreateBegin(s, c, ok)
  \/ \E s \in SessionIds, r \in SessionReplies, ok \in BOOLEAN : CreateStep(s, r, ok)
  \/ \E s \in SessionIds, ok \in BOOLEAN : ExecGetSession(1, s, ok)
  \/ \E ok \in BOOLEAN : ExecGetSteps(1, ok)
  \/ \E ok \in BOOLEAN : ExecSetRunning(1, ok)
  \/ \E n \in 0..3 : ExecLaunch(1, n)
  \/ IssueStepWrite(1)
  \/ \E ok \in BOOLEAN : StepStartAfterWrite(1, ok)
  \/ \E o \in StepOutcomes, captured \in BOOLEAN : ExecStepAct(1, o, captured)
  \/ \E captured \in BOOLEAN, ok \in BOOLEAN : StepFinishAfterWrite(1, captured, ok)
  \/ \E f \in {"none", "page", "context", "browser"} : ExecCleanup(1, f)
  \/ \E ok \in BOOLEAN : ExecFinalUpdate(1, ok)
  \/ \E s \in SessionIds : DeleteRequested(s)
  \/ \E s \in SessionIds, ok \in BOOLEAN : DeleteStepsAfterWrite(s, ok)
  \/ \E s \in SessionIds, ok \in BOOLEAN : DeleteSession(s, ok)
SpecWrites == Init /\ [][NextWrites]_vars

----------------------------------------------------------------------------
(* The translator on its own: every command of up to MaxParts phrases, *)
(* every answer of the capability                                        *)

Phrases ==
  {<<"Click">>, <<"Type">>, <<"enter">>, <<"navigate">>, <<"go", " ", "to">>, <<"verify">>,
   <<" ">>, <<"x">>, <<"dq", "Y", "dq">>, <<"sq", "s">>, <<"http://u">>}

RECURSIVE Flatten(_)
Flatten(parts) == IF parts = <<>> THEN <<>> ELSE Head(parts) \o Flatten(Tail(parts))

Commands == {Flatten(p) : p \in UNION {[1..n -> Phrases] : n \in 1..MaxParts}}

ReplyTypes ==
  {Undefined, Str(<<"click">>), Str(<<"type">>), Str(<<"navigate">>), Str(<<"upload">>),
   Str(<<"invalid_action">>)}

TranslatorReplies ==
  {ApiError, NotJson, Json(Null)}
  \cup {Json(Obj([type |-> t, target |-> g, value |-> v])) :
          t \in ReplyTypes, g \in {Undefined, Str(<<"#a">>)},
          v \in {Undefined, Str(<<>>), Str(<<"v">>)}}

NotYet == [pending |-> TRUE]

InitTranslate ==
  /\ test_sessions = [s \in SessionIds |-> NoRow]
  /\ test_steps = {}
  /\ creates = [s \in SessionIds |-> IdleCreate]
  /\ execs = [e \in ExecIds |-> IdleExec]
  /\ deletes = [s \in SessionIds |-> IdleDelete]
  /\ faults = 0
  /\ trCommand \in Commands
  /\ trReply = ApiError
  /\ trResult = NotYet
  /\ pageDom = BlankPage
  /\ pageAction = Null
  /\ pageResult = NotYet
  /\ reads = NotYet
  /\ inflight = {}

Translate(reply) ==
  /\ trResult = NotYet
  /\ trReply' = reply
  /\ trResult' = translateCommand(trCommand, reply)
  /\ UNCHANGED <<storeVars, creates, execs, deletes, faults, trCommand, pgVars, obsVars>>

NextTranslate == \E reply \in TranslatorReplies : Translate(reply)
SpecTranslate == InitTranslate /\ [][NextTranslate]_vars

\* executeTest over the rows the store holds when the server starts: the
\* database file outlives the process, and executeStep reads translated_action
\* as text, which may or may not be the JSON of an action
StoredActions ==
  {JSONstringify(validateAction(Obj([type |-> Str(<<k>>), target |-> Str(<<"#a">>)])).value) :
     k \in {"click", "verify"}}
  \cup {[text |-> <<"{">>]}

StoredStepRow(sessionId, stepNumber, text) ==
  [id |-> <<sessionId, stepNumber>>, session_id |-> sessionId, step_number |-> stepNumber,
   original_command |-> <<"x">>, translated_action |-> text,
   action_type |-> Str(<<"click">>), status |-> "pending",
   actual_result |-> NULL, error_message |-> NULL, screenshot_path |-> NULL]

InitStored ==
  /\ \E texts \in [1..2 -> StoredActions] :
        test_steps = {StoredStepRow("s1", k, texts[k]) : k \in 1..2}
  /\ test_sessions = [s \in SessionIds |-> NewSessionRow(2)]
  /\ creates = [s \in SessionIds |-> IdleCreate]
  /\ execs = [e \in ExecIds |-> IdleExec]
  /\ deletes = [s \in SessionIds |-> IdleDelete]
  /\ faults = 0
  /\ trCommand = <<>>
  /\ trReply = ApiError
  /\ trResult = NotYet
  /\ pageDom = BlankPage
  /\ pageAction = Null
  /\ pageResult = NotYet
  /\ reads = NotYet
  /\ inflight = {}

\* one execute request for the stored session
NextStored ==
  \/ \E s \in SessionIds, ok \in BOOLEAN : ExecGetSession(1, s, ok)
  \/ \E ok \in BOOLEAN : ExecGetSteps(1, ok)
  \/ \E ok \in BOOLEAN : ExecSetRunning(1, ok)
  \/ \E n \in 0..3 : ExecLaunch(1, n)
  \/ \E ok \in BOOLEAN : ExecStepStart(1, ok)
  \/ \E o \in StepOutcomes, captured \in BOOLEAN : ExecStepAct(1, o, captured)
  \/ \E captured \in BOOLEAN, ok \in BOOLEAN : ExecStepFinish(1, captured, ok)
  \/ \E f \in {"none", "page", "context", "browser"} : ExecCleanup(1, f)
  \/ \E ok \in BOOLEAN : ExecFinalUpdate(1, ok)
SpecStored == InitStored /\ [][NextStored]_vars

\* validateAction on its own: the object the caller passes (trReply carries
\* it), what validateAction gives for it, and what it gives for its own result
ValidateInputs ==
  {Null}
  \cup {Obj([type |-> t, target |-> g, value |-> v, description |-> d, waitFor |-> w,
             timeout |-> ms]) :
          t \in {Undefined, Str(<<"click">>), Str(<<"type">>), Str(<<"navigate">>),
                 Str(<<"verify">>), Str(<<"upload">>), Str(<<"invalid_action">>)},
          g \in {Undefined, Str(<<>>), Str(<<"#a">>)},
          v \in {Undefined, Str(<<>>), Str(<<"v">>)},
          d \in {Undefined, Str(<<"d">>)},
          w \in {Undefined, Str(<<"load">>)},
          ms \in {Undefined, Num(0), Num(-5), Num(5000), Str(<<"soon">>)}}

InitValidate ==
  /\ test_sessions = [s \in SessionIds |-> NoRow]
  /\ test_steps = {}
  /\ creates = [s \in SessionIds |-> IdleCreate]
  /\ execs = [e \in ExecIds |-> IdleExec]
  /\ deletes = [s \in SessionIds |-> IdleDelete]
  /\ faults = 0
  /\ trCommand = <<>>
  /\ trReply \in {Json(a) : a \in ValidateInputs}
  /\ trResult = NotYet
  /\ pageDom = BlankPage
  /\ pageAction = Null
  /\ pageResult = NotYet
  /\ reads = NotYet
  /\ inflight = {}

\* validateAction(action): the function assigns to no property of its argument
Validate ==
  /\ trResult = NotYet
  /\ trResult' = [once |-> validateAction(trReply.value)]
  /\ UNCHANGED <<storeVars, creates, execs, deletes, faults, trCommand, trReply, pgVars, obsVars>>

\* validateAction(validateAction(action))
Revalidate ==
  /\ DOMAIN trResult = {"once"}
  /\ ~trResult.once.throws
  /\ trResult' = [once |-> trResult.once, twice |-> validateAction(trResult.once.value)]
  /\ UNCHANGED <<storeVars, creates, execs, deletes, faults, trCommand, trReply, pgVars, obsVars>>

NextValidate == Validate \/ Revalidate
SpecValidate == InitValidate /\ [][NextValidate]_vars

\* translateCommand from the call of openai.chat.completions.create to its
\* return.  The client is built with the key alone and the call is awaited as
\* it is: the function goes on when the promise settles, and no timer of its
\* own abandons the call.
OnePhraseCommands == {Flatten(p) : p \in [1..1 -> Phrases]}

InitAwait ==
  /\ test_sessions = [s \in SessionIds |-> NoRow]
  /\ test_steps = {}
  /\ creates = [s \in SessionIds |-> IdleCreate]
  /\ execs = [e \in ExecIds |-> IdleExec]
  /\ deletes = [s \in SessionIds |-> IdleDelete]
  /\ faults = 0
  /\ trCommand \in OnePhraseCommands
  /\ trReply = NotYet
  /\ trResult = NotYet
  /\ pageDom = BlankPage
  /\ pageAction = Null
  /\ pageResult = NotYet
  /\ reads = NotYet
  /\ inflight = {}

\* the capability settles the promise: a completion, or an error
CapabilityAnswers(reply) ==
  /\ trReply = NotYet
  /\ trReply' = reply
  /\ UNCHANGED <<storeVars, creates, execs, deletes, faults, trCommand, trResult, pgVars, obsVars>>

\* the rest of translateCommand, run once the awaited promise has settled
TranslateResumes ==
  /\ trReply # NotYet
  /\ trResult = NotYet
  /\ trResult' = translateCommand(trCommand, trReply)
  /\ UNCHANGED <<storeVars, creates, execs, deletes, faults, trCommand, trReply, pgVars, obsVars>>

NextAwait ==
  \/ \E reply \in TranslatorReplies : CapabilityAnswers(reply)
  \/ TranslateResumes
\* the event loop runs a continuation that is ready; nothing makes the
\* capability answer
SpecAwait == InitAwait /\ [][NextAwait]_vars /\ WF_vars(TranslateResumes)

----------------------------------------------------------------------------
(* The handlers on their own: every target of up to MaxCandidates selectors  *)
(* on every page, every title of up to MaxTitle characters                    *)

\* selectors in one target
MaxCandidates == 3
\* characters in a page title
MaxTitle == 3

Selectors == {<<".a">>, <<"#b">>, <<"text=Foo">>}

RECURSIVE Join(_)
Join(parts) ==
  IF Len(parts) = 1 THEN parts[1] ELSE parts[1] \o <<",", " ">> \o Join(Tail(parts))

\* targets: one to MaxCandidates selectors, joined by a comma and a blank
Targets == {Join(c) : c \in UNION {[1..n -> Selectors] : n \in 1..MaxCandidates}}

TitleChars == {"E", "e", "x"}
Titles == UNION {[1..n -> TitleChars] : n \in 0..MaxTitle}
Expecteds == UNION {[1..n -> TitleChars] : n \in 0..2}

\* pages for click and type: some selectors resolve, some of these refuse the action
SelectorPages ==
  {[attached |-> a, hidden |-> {}, refuses |-> r, title |-> <<>>, text |-> <<>>] :
     a \in SUBSET Selectors, r \in SUBSET Selectors}

\* the text content of the element of a verify page
ElementTexts == {<<>>, <<"E">>, <<"e", "x">>}

\* pages for verify: a title, and no element or one element, shown or hidden,
\* with its text
VerifyPages ==
  {[attached |-> a, hidden |-> h, refuses |-> {}, title |-> t, text |-> x] :
     a \in {{}, {<<"#b">>}}, h \in {{}, {<<"#b">>}}, t \in Titles, x \in ElementTexts}

InitPage ==
  /\ test_sessions = [s \in SessionIds |-> NoRow]
  /\ test_steps = {}
  /\ creates = [s \in SessionIds |-> IdleCreate]
  /\ execs = [e \in ExecIds |-> IdleExec]
  /\ deletes = [s \in SessionIds |-> IdleDelete]
  /\ faults = 0
  /\ trCommand = <<>>
  /\ trReply = ApiError
  /\ trResult = NotYet
  /\ pageResult = NotYet
  /\ reads = NotYet
  /\ inflight = {}
  /\ \/ /\ pageDom \in {d \in SelectorPages : d.refuses \subseteq d.attached}
        /\ pageAction \in {Obj([type |-> Str(<<k>>), target |-> Str(t), value |-> Str(<<"v">>)]) :
                             k \in {"click", "type", "hover", "select"}, t \in Targets}
     \/ /\ pageDom \in {d \in VerifyPages : d.hidden \subseteq d.attached}
        /\ pageAction \in {Obj([type |-> Str(<<"verify">>), target |-> Str(g), value |-> Str(v)]) :
                             g \in {<<"title">>, <<"#b">>}, v \in Expecteds}

\* the case of executeStep's switch for click, type, verify, hover and select
RunClick ==
  /\ pageResult = NotYet
  /\ Get(pageAction, "type") = Str(<<SUPPORTED_ACTIONS.CLICK>>)
  /\ pageResult' = executeClick(pageDom, pageAction)
  /\ UNCHANGED <<storeVars, creates, execs, deletes, faults, trVars, pageDom, pageAction, obsVars>>

RunType ==
  /\ pageResult = NotYet
  /\ Get(pageAction, "type") = Str(<<SUPPORTED_ACTIONS.TYPE>>)
  /\ pageResult' = executeType(pageDom, pageAction)
  /\ UNCHANGED <<storeVars, creates, execs, deletes, faults, trVars, pageDom, pageAction, obsVars>>

RunVerify ==
  /\ pageResult = NotYet
  /\ Get(pageAction, "type") = Str(<<SUPPORTED_ACTIONS.VERIFY>>)
  /\ pageResult' = executeVerify(pageDom, pageAction)
  /\ UNCHANGED <<storeVars, creates, execs, deletes, faults, trVars, pageDom, pageAction, obsVars>>

RunHover ==
  /\ pageResult = NotYet
  /\ Get(pageAction, "type") = Str(<<SUPPORTED_ACTIONS.HOVER>>)
  /\ pageResult' = executeHover(pageDom, pageAction)
  /\ UNCHANGED <<storeVars, creates, execs, deletes, faults, trVars, pageDom, pageAction, obsVars>>

RunSelect ==
  /\ pageResult = NotYet
  /\ Get(pageAction, "type") = Str(<<SUPPORTED_ACTIONS.SELECT>>)
  /\ pageResult' = executeSelect(pageDom, pageAction)
  /\ UNCHANGED <<storeVars, creates, execs, deletes, faults, trVars, pageDom, pageAction, obsVars>>

NextPage == RunClick \/ RunType \/ RunVerify \/ RunHover \/ RunSelect
SpecPage == InitPage /\ [][NextPage]_vars

----------------------------------------------------------------------------
(* Claims *)

ActionOf(step) == JSONparse(step.translated_action).value
KindOf(step) == Get(ActionOf(step), "type")

\* a critical step: a navigate step, or the step with ordinal 1
CriticalStep(step) == step.step_number = 1 \/ KindOf(step) = Str(<<"navigate">>)

TerminalStatus == {"passed", "failed"}

\* C1: once a critical step (a navigate step, or step 1) has ended failed, the
\* execution runs no later step: the failed step is the last one it executed.
C1_CriticalFailureAborts ==
  \A e \in ExecIds : \A k \in DOMAIN execs[e].results :
    (/\ faults = 0
     /\ execs[e].results[k].status = "failed"
     /\ CriticalStep(execs[e].steps[k]))
    => (Len(execs[e].results) = k /\ execs[e].i = k)

\* the step of the create response for a command whose translation failed
TranslationFailed(step) == step.status = "failed" /\ step.error # <<"SQLITE_ERROR">>

\* C2: when execute completes, the session's final status is failed if a step
\* failed (in the execution, or already at translation during create) or was
\* left unexecuted, and passed otherwise.
C2_FinalStatusReflectsSteps ==
  [][\A e \in ExecIds :
       LET x == execs[e]
           c == creates[x.sessionId]
       IN (/\ x.pc = "finalUpdate"
           /\ execs'[e].pc = "done"
           /\ execs'[e].code = 200
           /\ faults' = 0
           /\ c.pc = "done")
          => execs'[e].status =
               IF \/ \E k \in DOMAIN c.steps : TranslationFailed(c.steps[k])
                  \/ \E k \in DOMAIN x.results : x.results[k].status = "failed"
                  \/ Len(x.results) < Len(x.steps)
               THEN "failed" ELSE "passed"]_vars

\* C3: for a created session whose execution has completed, passed_steps +
\* failed_steps + the number of its pending steps = total_steps.
C3_CountsSumToTotal ==
  \A e \in ExecIds :
    LET x == execs[e]
    IN (/\ x.pc = "done"
        /\ x.code = 200
        /\ faults = 0
        /\ creates[x.sessionId].pc = "done")
       => LET row == test_sessions[x.sessionId]
              pending == {r \in StepsOf(x.sessionId) : r.status = "pending"}
          IN row.passed_steps + row.failed_steps + Cardinality(pending) = row.total_steps

\* C4: a session that has reached passed or failed never changes status
\* again (execute on it is refused and changes nothing).
C4_TerminalStatusIsFinal ==
  [][\A s \in SessionIds :
       (test_sessions[s] # NoRow /\ test_sessions[s].status \in TerminalStatus)
       => test_sessions'[s] = test_sessions[s]]_vars

\* C5: once executeTest has returned or thrown, it has released the page, the
\* context and the browser it acquired: none is left open without a close
\* having been called on it.
C5_ResourcesReleased ==
  \A e \in ExecIds :
    execs[e].pc \in {"finalUpdate", "done"}
    => /\ execs[e].page # "open"
       /\ execs[e].context # "open"
       /\ execs[e].browser # "open"

NonCriticalFailure(x) ==
  \E k \in DOMAIN x.results :
    x.results[k].status = "failed" /\ ~CriticalStep(x.steps[k])

\* C6, while the loop runs and when it has ended: the results are those of the
\* steps in order, and after a failed non-critical step the loop leaves only
\* when every step has a result (or by an exception)
C6_RemainingStepsRun ==
  \A e \in ExecIds :
    LET x == execs[e]
    IN NonCriticalFailure(x)
       => /\ \A j \in DOMAIN x.results : x.results[j].stepId = x.steps[j].id
          /\ (x.pc \in {"cleanup", "finalUpdate"} /\ ~x.thrown)
             => Len(x.results) = Len(x.steps)

\* C6, at the end: the execution answers failed and writes failed to the session
C6_EndsFailed ==
  \A e \in ExecIds :
    LET x == execs[e]
    IN (NonCriticalFailure(x) /\ x.pc = "finalUpdate"
        /\ execs'[e].pc = "done" /\ execs'[e].code = 200)
       => /\ execs'[e].status = "failed"
          /\ execs'[e].summary.passed + execs'[e].summary.failed = Len(x.steps)
          /\ test_sessions'[x.sessionId].status = "failed"

\* C6: when a non-critical step (not a navigate step, not step 1) fails, every
\* remaining step is still executed, in order, and the session ends failed.
C6_NonCriticalFailureContinues == []C6_RemainingStepsRun /\ [][C6_EndsFailed]_vars

\* a failed non-critical step with a step after it, and the loop has ended
C6_Witness ==
  \E e \in ExecIds :
    LET x == execs[e]
    IN /\ x.pc = "finalUpdate"
       /\ \E k \in DOMAIN x.results :
            /\ x.results[k].status = "failed"
            /\ ~CriticalStep(x.steps[k])
            /\ k < Len(x.results)

EventRank(kind) == CASE kind = "running" -> 1 [] kind = "action" -> 2 [] OTHER -> 3

\* the events of one execution: ordinals never decrease, the events of a step
\* come in the order running, action, final, and an event of a later step
\* comes only after the final write of every earlier step that has an event
LogInOrder(log) ==
  \A p, q \in DOMAIN log :
    p < q =>
      /\ log[p][2] <= log[q][2]
      /\ log[p][2] = log[q][2] => EventRank(log[p][1]) < EventRank(log[q][1])
      /\ log[p][2] < log[q][2] => \E r \in p..(q - 1) : log[r] = <<"final", log[p][2]>>

\* C7: within one execution the steps run in increasing ordinal order, one at
\* a time: the action of a step starts only after the final state of every
\* earlier step was written, and no two steps are in status running together.
C7_StepsRunInOrder ==
  /\ \A e \in ExecIds : LogInOrder(execs[e].log)
  /\ Cardinality({r \in test_steps : r.status = "running"}) <= 1

\* an execution that has run the actions of two steps
C7_Witness ==
  \E e \in ExecIds : \E p, q \in DOMAIN execs[e].log :
    /\ execs[e].log[p][1] = "action"
    /\ execs[e].log[q][1] = "action"
    /\ execs[e].log[p][2] < execs[e].log[q][2]

\* C8: create with n commands yields n steps in the store, with ordinals 1..n
\* in command order (a failed translation as a failed step with no action), so
\* that getSession returns them.
C8_CreateRecordsEveryCommand ==
  \A s \in SessionIds :
    (creates[s].pc = "done" /\ creates[s].code = 200 /\ faults = 0)
    => LET got == getSession(s)
       IN /\ got.code = 200
          /\ Len(got.steps) = Len(creates[s].commands)
          /\ \A k \in DOMAIN got.steps :
               /\ got.steps[k].step_number = k
               /\ got.steps[k].original_command = creates[s].commands[k]

\* the capability answered a JSON object whose type is a string that is not
\* one of the ten supported kinds
UnknownKindReply(reply) ==
  /\ reply.kind = "json"
  /\ reply.value.t = "object"
  /\ Get(reply.value, "type").t = "string"
  /\ ~IsSupported(Get(reply.value, "type"))

\* C9: when the capability answers an object of an unsupported kind,
\* translateCommand fails with an invalid-action-type error, whatever the
\* command text.
C9_UnknownKindFails ==
  (trResult # NotYet /\ UnknownKindReply(trReply))
  => (trResult.throws /\ includes(trResult.message, <<"Invalid action type: ">>))

\* C10: translateCommand never returns a type action whose value is empty or
\* missing, by the capability path or by the fallback.
C10_TypeActionHasValue ==
  (trResult # NotYet /\ ~trResult.throws
   /\ Get(trResult.value, "type") = Str(<<"type">>))
  => (Get(trResult.value, "value").t = "string" /\ Get(trResult.value, "value").s # <<>>)

\* the capability answered a type action without a value and translateCommand
\* has run
C10_Witness ==
  /\ trResult # NotYet
  /\ trReply.kind = "json"
  /\ Get(trReply.value, "type") = Str(<<"type">>)
  /\ ~Truthy(Get(trReply.value, "value"))

----------------------------------------------------------------------------
(* Claims about the pattern fallback *)

\* translateCommand has run with the language capability unavailable
CapabilityUnavailable == trResult # NotYet /\ trReply = ApiError

NormalizedFields == {"type", "target", "value", "description", "waitFor", "timeout"}

\* C11: every Action translateCommand returns, from the capability or from
\* the fallback, is what the validator gives: it carries type, target, value
\* ('' when none), description, waitFor (null when none) and timeout (30000
\* when none).
C11_ReturnedActionIsNormalized ==
  (trResult # NotYet /\ ~trResult.throws)
  => /\ trResult.value.t = "object"
     /\ DOMAIN trResult.value.f = NormalizedFields
     /\ validateAction(trResult.value) = Return(trResult.value)

\* the content of the first quoted string of a command: the text between the
\* leftmost quote character that has a partner (the same character, later in
\* the command) and that partner
HasQuotedString(command) ==
  \E i, j \in 1..Len(command) : i < j /\ IsQuote(command[i]) /\ command[j] = command[i]

FirstQuotedString(command) ==
  LET partners(i) == {j \in (i + 1)..Len(command) : command[j] = command[i]}
      i == SetMin({k \in 1..Len(command) : IsQuote(command[k]) /\ partners(k) # {}})
  IN SubSeq(command, i + 1, SetMin(partners(i)) - 1)

HasQuotedLiteral(command) == HasQuotedString(command) /\ FirstQuotedString(command) # <<>>

HasVerb(command, verbs) == \E v \in verbs : includes(toLowerCase(command), v)

ClickVerb == {<<"click">>}
TypeVerbs == {<<"type">>, <<"enter">>}
NavigateVerbs == {<<"navigate">>, <<"go", " ", "to">>}
VerifyVerb == {<<"verify">>}

\* C12: with the capability unavailable, a command with the verb type (or
\* enter), a quoted literal and no other verb of the fallback is translated to
\* the type Action whose value is the literal and whose target is
\* "input, textarea".
C12_FallbackType ==
  (/\ CapabilityUnavailable
   /\ HasVerb(trCommand, TypeVerbs)
   /\ ~HasVerb(trCommand, ClickVerb \cup NavigateVerbs \cup VerifyVerb)
   /\ HasQuotedLiteral(trCommand))
  => /\ ~trResult.throws
     /\ Get(trResult.value, "type") = Str(<<"type">>)
     /\ Get(trResult.value, "value") = Str(FirstQuotedString(trCommand))
     /\ Get(trResult.value, "target") = Str(<<"input, textarea">>)

\* C13: in the fallback, a command with both a navigation verb (and its URL)
\* and the click verb gives a navigate Action, not a click Action.
C13_NavigateBeforeClick ==
  (/\ CapabilityUnavailable
   /\ HasVerb(trCommand, NavigateVerbs)
   /\ HasVerb(trCommand, ClickVerb)
   /\ extractUrl(trCommand) # Null)
  => /\ ~trResult.throws
     /\ Get(trResult.value, "type") = Str(<<"navigate">>)

\* C14: in the fallback, the value of the type Action is exactly the content
\* of the first quoted string of the command, whichever quote character
\* delimits it.
C14_ValueIsFirstQuoted ==
  (/\ CapabilityUnavailable
   /\ ~trResult.throws
   /\ Get(trResult.value, "type") = Str(<<"type">>)
   /\ HasQuotedString(trCommand))
  => Get(trResult.value, "value") = Str(FirstQuotedString(trCommand))

\* C15: with the capability unavailable, a command with the verb verify, a
\* quoted literal and no other verb of the fallback gives a verify Action, not
\* a translation failure.
C15_FallbackVerify ==
  (/\ CapabilityUnavailable
   /\ HasVerb(trCommand, VerifyVerb)
   /\ ~HasVerb(trCommand, ClickVerb \cup TypeVerbs \cup NavigateVerbs)
   /\ HasQuotedLiteral(trCommand))
  => /\ ~trResult.throws
     /\ Get(trResult.value, "type") = Str(<<"verify">>)

\* C16: with the capability unavailable, a command with navigate or go to, an
\* http(s) URL and no other verb of the fallback gives a navigate Action whose
\* target is the URL; a command with click and a quoted literal gives a click
\* Action whose target contains the literal.
C16_FallbackNavigateAndClick ==
  /\ (/\ CapabilityUnavailable
      /\ HasVerb(trCommand, NavigateVerbs)
      /\ ~HasVerb(trCommand, ClickVerb \cup TypeVerbs \cup VerifyVerb)
      /\ extractUrl(trCommand) # Null)
     => /\ ~trResult.throws
        /\ Get(trResult.value, "type") = Str(<<"navigate">>)
        /\ Get(trResult.value, "target") = extractUrl(trCommand)
  /\ (/\ CapabilityUnavailable
      /\ HasVerb(trCommand, ClickVerb)
      /\ HasQuotedLiteral(trCommand))
     => /\ ~trResult.throws
        /\ Get(trResult.value, "type") = Str(<<"click">>)
        /\ includes(Get(trResult.value, "target").s, FirstQuotedString(trCommand))

----------------------------------------------------------------------------
(* Claims about the handlers *)

ClickOrType ==
  /\ pageResult # NotYet
  /\ Get(pageAction, "type") \in {Str(<<"click">>), Str(<<"type">>)}

\* positions of the candidates that exist on the page
Existing == {i \in DOMAIN SelectorsOf(pageAction) : Resolves(pageDom, SelectorsOf(pageAction)[i])}

\* the candidates the handler probed or acted on, in call order
Touched == [k \in DOMAIN pageResult.calls |-> pageResult.calls[k][2]]

\* C17: for click and type the candidates are probed in list order and the
\* action is performed on the first candidate that exists on the page; no
\* candidate after the first existing one is probed or acted on.
C17_FirstExistingCandidate ==
  (ClickOrType /\ Existing # {})
  => LET selectors == SelectorsOf(pageAction)
         first == SetMin(Existing)
         method == IF Get(pageAction, "type") = Str(<<"click">>) THEN "click" ELSE "fill"
     IN /\ pageResult.calls =
             [k \in 1..(first + 1) |->
                IF k <= first THEN <<"waitForSelector", selectors[k]>>
                ELSE <<method, selectors[first]>>]

\* the substring relation, position by position
IsSubstring(part, whole) ==
  \E i \in 0..(Len(whole) - Len(part)) : \A k \in 1..Len(part) : whole[i + k] = part[k]

VerifiedTitle ==
  /\ pageResult # NotYet
  /\ Get(pageAction, "type") = Str(<<"verify">>)
  /\ Get(pageAction, "target") = Str(<<"title">>)

\* C19: verify with target title passes exactly when the title contains the
\* expected value as a case-sensitive substring; the message on pass and the
\* error on fail both contain the title and the expected value.
C19_VerifyTitle ==
  VerifiedTitle
  => LET title == pageDom.title
         expected == Get(pageAction, "value").s
         outcome == pageResult.outcome
         text == IF outcome.throws THEN outcome.message ELSE outcome.value.s
     IN /\ ~outcome.throws <=> IsSubstring(expected, title)
        /\ IsSubstring(title, text)
        /\ IsSubstring(expected, text)
        /\ outcome.throws => IsSubstring(<<"Title verification failed: ">>, text)
        /\ ~outcome.throws => IsSubstring(<<"Title verification passed: ">>, text)

\* the title differs from the expected value in case only, and verify failed
C19_Witness ==
  /\ VerifiedTitle
  /\ Get(pageAction, "value").s # <<>>
  /\ ~IsSubstring(Get(pageAction, "value").s, pageDom.title)
  /\ IsSubstring(toLowerCase(Get(pageAction, "value").s), toLowerCase(pageDom.title))
  /\ pageResult.outcome.throws

----------------------------------------------------------------------------
(* Claims about executeStep and the store *)

\* the row of the step an execution is at
RowOf(rows, stepId) == CHOOSE r \in rows : r.id = stepId

\* C18, for one execution leaving executeStep: a capture was attempted; when
\* the result was written, the status is passed exactly when the action
\* succeeded, whatever the capture did, and the loop goes on or ends without
\* an exception; executeStep is left by exception only when the result was
\* not written
C18_StepLeft(e) ==
  LET x == execs[e]
      y == execs'[e]
      step == x.steps[x.i]
      status == IF x.outcome.throws THEN "failed" ELSE "passed"
  IN (x.pc = "stepFinish" /\ y.pc # "stepFinish")
     => /\ y.captures >= 1
        /\ Len(y.results) = Len(x.results) + 1 \/ y.thrown
        /\ y.thrown => (test_steps' = test_steps /\ y.results = x.results)
        /\ ~y.thrown => /\ y.results[Len(y.results)].status = status
                        /\ RowOf(test_steps', step.id).status = status
                        /\ y.pc \in {"stepStart", "cleanup"}

\* C18: after every step execution, passed or failed, a screenshot capture is
\* attempted; a capture failure never changes the step's status and never
\* aborts the execution.
C18_CaptureFailureIsHarmless == [][\A e \in ExecIds : C18_StepLeft(e)]_vars

\* a step whose action succeeded and whose capture failed: it is passed, with
\* no screenshot
C18_Witness ==
  \E r \in test_steps :
    r.status = "passed" /\ r.screenshot_path = NULL /\ r.actual_result # NULL

\* C20: a failed store write of create or execute is never recorded as a
\* translation failure (a failed step of the create response) or as a step
\* failure (a failed step row): it fails the call.
C20_StoreErrorSurfaces ==
  /\ \A s \in SessionIds : \A k \in DOMAIN creates[s].steps :
       creates[s].steps[k].status = "failed" => creates[s].steps[k].error # <<"SQLITE_ERROR">>
  /\ \A r \in test_steps : r.error_message # "SQLITE_ERROR"
  /\ \A e \in ExecIds : \A k \in DOMAIN execs[e].results :
       execs[e].results[k].error # "SQLITE_ERROR"

----------------------------------------------------------------------------
(* Claims about the life of a session *)

\* C23: no outcome of an execution leaves the session in status running:
\* when the execute request has been answered, the session it set running is
\* passed or failed.
C23_RunningEnds ==
  \A e \in ExecIds :
    (execs[e].pc = "done" /\ test_sessions[execs[e].sessionId] # NoRow)
    => test_sessions[execs[e].sessionId].status # "running"

\* C21: after deleteSession has succeeded, the session and all its steps are
\* gone from the store and never reappear, whatever the requests still in
\* flight write afterwards.
C21_DeletedStaysDeleted ==
  \A s \in SessionIds :
    (deletes[s].pc = "done" /\ deletes[s].code = 200)
    => (test_sessions[s] = NoRow /\ StepsOf(s) = {})

----------------------------------------------------------------------------
(* Claims about the writes of executeStep *)

InExecuteStep(x) == x.pc \in {"stepStart", "stepAct", "stepFinish"}

\* C28, for one execution: executeStep returns (its result is pushed) and the
\* stored record of the step, when the step still exists, carries the
\* returned status, passed or failed
C28_StepReturned(e) ==
  LET x == execs[e]
      y == execs'[e]
      step == x.steps[x.i]
  IN (x.pc = "stepFinish" /\ Len(y.results) = Len(x.results) + 1)
     => LET result == y.results[Len(y.results)]
        IN /\ result.stepId = step.id
           /\ result.status \in {"passed", "failed"}
           /\ \A r \in test_steps' : r.id = step.id => r.status = result.status
           /\ (\E r \in test_steps : r.id = step.id) => (\E r \in test_steps' : r.id = step.id)

\* C28: every call of executeStep that returns ends by writing the step's
\* final state to the store: the stored status equals the returned status and
\* is passed or failed, never pending or running.
C28_ReturnWritesFinalState == [][\A e \in ExecIds : C28_StepReturned(e)]_vars

\* executeStep has returned failed and the stored step is failed
C28_Witness ==
  \E e \in ExecIds : \E k \in DOMAIN execs[e].results : \E r \in test_steps :
    /\ r.id = execs[e].results[k].stepId
    /\ execs[e].results[k].status = "failed"
    /\ r.status = "failed"

IdentityColumns == {"id", "session_id", "step_number", "original_command", "translated_action",
                    "action_type"}

\* C29, for one execution inside executeStep: the session records and the
\* records of the other steps are as they were, no record appears or goes,
\* and the step's own record keeps its identity columns
C29_StepFrame(e) ==
  LET x == execs[e]
      step == x.steps[x.i]
  IN (InExecuteStep(x) /\ execs'[e] # x)
     => /\ test_sessions' = test_sessions
        /\ \A r \in test_steps : r.id # step.id => r \in test_steps'
        /\ \A r \in test_steps' : r.id # step.id => r \in test_steps
        /\ \A r \in test_steps : r.id = step.id =>
             \E q \in test_steps' : \A k \in IdentityColumns : q[k] = r[k]

\* C29: executing a step changes, in the store, only that step's own record:
\* no field of any other step and no session record.
C29_OnlyOwnRecord == [][\A e \in ExecIds : C29_StepFrame(e)]_vars

\* a step has its result while another step of the session is still pending
C29_Witness ==
  \E r, q \in test_steps :
    /\ r.session_id = q.session_id
    /\ r.status \in {"passed", "failed"}
    /\ q.status = "pending"

----------------------------------------------------------------------------
(* Claims about the errors of click and type *)

\* the error of executeClick and executeType that says no element was found
ElementNotFound(outcome) ==
  /\ outcome.throws
  /\ \/ IsSubstring(<<"Could not find clickable element with any of the selectors: ">>,
                    outcome.message)
     \/ IsSubstring(<<"Could not find input element with any of the selectors: ">>,
                    outcome.message)

\* C27: a click or type step fails with the element-not-found error only when
\* none of its candidates exists on the page, and the error lists every
\* candidate; a failed action on an existing candidate is not reported as
\* element not found.
C27_NotFoundOnlyWhenAbsent ==
  (ClickOrType /\ ElementNotFound(pageResult.outcome))
  => /\ Existing = {}
     /\ \A i \in DOMAIN SelectorsOf(pageAction) :
          IsSubstring(SelectorsOf(pageAction)[i], pageResult.outcome.message)

----------------------------------------------------------------------------
(* Claims about reading a session *)

\* C22: getSession changes no stored state, and two calls with no write in
\* between return the same steps, in the same ordinal order, with the same
\* content.
C22_ReadIsIdempotent ==
  [][reads' # reads
     => /\ storeVars' = storeVars
        /\ (reads'.first.code = 200 /\ reads'.second.code = 200)
           => reads'.first = reads'.second
        /\ reads'.first.code = 200 =>
             \A k \in DOMAIN reads'.first.steps :
               \A j \in DOMAIN reads'.first.steps :
                 k < j => reads'.first.steps[k].row.step_number
                          < reads'.first.steps[j].row.step_number]_vars

\* a session of several steps, one of them executed, was read twice
C22_Witness ==
  /\ reads # [pending |-> TRUE]
  /\ reads.first.code = 200
  /\ reads.second.code = 200
  /\ Len(reads.first.steps) >= 2
  /\ \E k \in DOMAIN reads.first.steps : reads.first.steps[k].row.status = "passed"

----------------------------------------------------------------------------
(* Claims about retries *)

\* C24: nothing is retried: within one step execution the screenshot capture
\* (like every browser action and store write) is attempted at most once.
C24_NoRetry == \A e \in ExecIds : execs[e].captures <= 1

----------------------------------------------------------------------------
(* Claims about concurrent requests *)

\* the executions of a session that are inside executeTest
Executing(s) ==
  {e \in ExecIds : /\ execs[e].sessionId = s
                   /\ execs[e].pc \in {"launch", "stepStart", "stepAct", "stepFinish", "cleanup"}}

\* C25: at any moment at most one execution, and hence at most one browser
\* page, exists for a session.
C25_OneExecutionPerSession ==
  \A s \in SessionIds :
    /\ Cardinality(Executing(s)) <= 1
    /\ Cardinality({e \in ExecIds : execs[e].sessionId = s /\ execs[e].page = "open"}) <= 1

\* the writes in flight that are for a step: the writes that name it, and the
\* writes for every step of its session
WritesFor(stepId) ==
  {w \in inflight : w.step = stepId \/ w.step = EveryStep(stepId[1])}

\* C26: at most one store write for a given step id is in flight at any
\* time.
C26_OneWritePerStep ==
  \A r \in test_steps : Cardinality(WritesFor(r.id)) <= 1

\* C30: translateCommand always terminates: a call the capability never
\* answers is abandoned and the translator returns (its fallback).
C30_TranslateTerminates == <>(trResult # NotYet)

----------------------------------------------------------------------------
(* Claims about hover, select and the element branch of verify *)

HoverOrSelect ==
  /\ pageResult # NotYet
  /\ Get(pageAction, "type") \in {Str(<<"hover">>), Str(<<"select">>)}

\* C31: hover and select resolve their target through the ordered candidate
\* fallback of click and type: when only a later candidate exists on the
\* page, the action is performed on that candidate.
C31_HoverSelectFallback ==
  (HoverOrSelect /\ Cardinality(Existing) = 1 /\ SetMin(Existing) > 1)
  => LET selectors == SelectorsOf(pageAction)
         method == IF Get(pageAction, "type") = Str(<<"hover">>) THEN "hover" ELSE "selectOption"
     IN \E k \in DOMAIN pageResult.calls :
          pageResult.calls[k] = <<method, selectors[SetMin(Existing)]>>

VerifiedElement ==
  /\ pageResult # NotYet
  /\ Get(pageAction, "type") = Str(<<"verify">>)
  /\ Get(pageAction, "target") # Str(<<"title">>)

\* the first element matching the target is on the page and shown
TargetShown ==
  LET target == Get(pageAction, "target").s
  IN target \in pageDom.attached \ pageDom.hidden

\* C34: verify on an element target fails when the first matching element is
\* not visible; when it is visible and a value is given, it passes exactly
\* when the element's text contains the value; when it is visible and no
\* value is given, it passes.
C34_VerifyElement ==
  VerifiedElement
  => LET value == Get(pageAction, "value").s
         passes == ~pageResult.outcome.throws
     IN /\ ~TargetShown => ~passes
        /\ (TargetShown /\ value # <<>>) => (passes <=> IsSubstring(value, pageDom.text))
        /\ (TargetShown /\ value = <<>>) => passes

\* the element is on the page but hidden, its text contains the value, and the
\* step failed
C34_Witness ==
  /\ VerifiedElement
  /\ Get(pageAction, "target").s \in pageDom.attached \cap pageDom.hidden
  /\ Get(pageAction, "value").s # <<>>
  /\ IsSubstring(Get(pageAction, "value").s, pageDom.text)
  /\ pageResult.outcome.throws

----------------------------------------------------------------------------
(* Claims about the dispatch of a step *)

\* C32: every action that passes validation can be dispatched: a step whose
\* stored action is a validated action of one of the ten supported kinds never
\* fails with the unsupported-action-type error.
C32_ValidatedIsDispatched ==
  \A e \in ExecIds :
    LET x == execs[e]
    IN (x.pc = "stepFinish" /\ x.mode = "act"
        /\ ~validateAction(ActionOf(x.steps[x.i])).throws)
       => x.outcome # Failed("Unsupported action type")

----------------------------------------------------------------------------
(* Claims about validateAction *)

\* validateAction returned for the object trReply carries
Validated == "once" \in DOMAIN trResult /\ ~trResult.once.throws

\* C33: every action the validator accepts has a timeout that is a positive
\* integer, and 30000 when the input gave none.
C33_TimeoutIsPositive ==
  Validated
  => LET timeout == Get(trResult.once.value, "timeout")
     IN /\ timeout.t = "number"
        /\ timeout.n > 0
        /\ (Get(trReply.value, "timeout") = Undefined) => timeout = Num(30000)

\* C39: validateAction is pure: its argument is the same object after the
\* call, and applied to its own result it returns an action identical to that
\* result.
C39_ValidateIsIdempotent ==
  /\ [][trReply' = trReply]_vars
  /\ []("twice" \in DOMAIN trResult
         => /\ ~trResult.twice.throws
            /\ trResult.twice.value = trResult.once.value)

\* an input without target, value, description, waitFor and timeout was
\* accepted, and its result, where the defaults stand, was validated again
C39_Witness ==
  /\ "twice" \in DOMAIN trResult
  /\ trReply.value.f.description = Undefined
  /\ trReply.value.f.timeout = Undefined
  /\ trReply.value.f.waitFor = Undefined
  /\ trReply.value.f.target = Undefined

----------------------------------------------------------------------------
(* Claims about the counters of a session *)

\* the execute request e, which read every step the session has, is answered
\* with its summary in this step
Completes(e) ==
  /\ execs[e].pc = "finalUpdate"
  /\ execs'[e].pc = "done"
  /\ execs'[e].code = 200
  /\ {execs[e].steps[k].id : k \in DOMAIN execs[e].steps}
       = {r.id : r \in {q \in test_steps' : q.session_id = execs[e].sessionId}}

\* C35: when an execution completes, whatever the interleaving of execute
\* requests, the session's stored passed_steps and failed_steps are the
\* numbers of its stored steps with status passed and failed, and the
\* returned summary reports the same counts.
C35_CountersMatchSteps ==
  [][\A e \in ExecIds :
       Completes(e)
       => LET sessionId == execs[e].sessionId
              row == test_sessions'[sessionId]
              stored(status) ==
                Cardinality({r \in test_steps' : r.session_id = sessionId /\ r.status = status})
          IN /\ row.passed_steps = stored("passed")
             /\ row.failed_steps = stored("failed")
             /\ execs'[e].summary.passed = stored("passed")
             /\ execs'[e].summary.failed = stored("failed")]_vars

----------------------------------------------------------------------------
(* Claims about the order of the running write and the action *)

\* the text of the step's action is not the JSON of a value
Unparsable(step) == "json" \notin DOMAIN step.translated_action

\* the last write of the execution was status running for this step
RunningWritten(x, step) ==
  x.log # <<>> /\ x.log[Len(x.log)] = <<"running", step.step_number>>

\* the switch over action.type was entered in this step of the execution
ActionRan(x, y, step) == y.log = Append(x.log, <<"action", step.step_number>>)

----------------------------------------------------------------------------
(* Claims about the result of executeStep *)

\* C37: in every result executeStep returned, status passed comes with error
\* null and an actualResult, and status failed with an error and actualResult
\* null.
C37_ResultIsConsistent ==
  \A e \in ExecIds : \A k \in DOMAIN execs[e].results :
    LET result == execs[e].results[k]
    IN /\ result.status \in {"passed", "failed"}
       /\ result.status = "passed" => (result.error = NULL /\ result.actualResult # NULL)
       /\ result.status = "failed" => (result.error # NULL /\ result.actualResult = NULL)

\* a verify step returned its message and passed, and the step after it failed
C37_Witness ==
  LET results == execs[1].results
  IN /\ Len(results) = 2
     /\ results[1].status = "passed" /\ results[1].actualResult = "verification passed"
     /\ results[2].status = "failed"

----------------------------------------------------------------------------
(* Claims about execute for an unknown session *)

\* the execute request e is read in this step and the store, which answers,
\* holds no session of the id it names
ArrivesForUnknown(e) ==
  /\ execs[e].pc = "idle"
  /\ execs'[e].pc # "idle"
  /\ faults' = faults
  /\ test_sessions[execs'[e].sessionId] = NoRow

\* C38: execute for a session id that is not in the store returns not-found,
\* launches no browser and writes nothing to the store.
C38_UnknownSessionIsNotFound ==
  [][\A e \in ExecIds :
       ArrivesForUnknown(e)
       => /\ execs'[e].pc = "done"
          /\ execs'[e].code = 404
          /\ execs'[e].browser = "null" /\ execs'[e].context = "null" /\ execs'[e].page = "null"
          /\ test_sessions' = test_sessions
          /\ test_steps' = test_steps]_vars

\* the request for s1 was answered not-found while the store held no session
C38_Witness ==
  /\ execs[1].pc = "done"
  /\ execs[1].code = 404
  /\ execs[1].sessionId = "s1"
  /\ test_sessions["s1"] = NoRow
  /\ faults = 0

====
